---- MODULE Spec2Model ----
(***************************************************************************)
(* A model of the static-site generator of danielfalbo/prev.  The          *)
(* repository holds two revisions of the program, src/prev.py (page        *)
(* builders written in Python) and src/main.py (pages rendered from        *)
(* template files).  The variable impl says which revision runs; both are  *)
(* modelled, each from its own source.                                     *)
(*                                                                         *)
(* Text is modelled as a sequence of fragments, a fragment being a record  *)
(* [t, v]: t = "text" for literal text v, and other tags for text the      *)
(* program computes (the date-age script or component of a creation time). *)
(* Concatenating strings is concatenating sequences; a prefix of a file    *)
(* is a prefix of its sequence.                                            *)
(***************************************************************************)
EXTENDS Integers, Sequences, FiniteSets, TLC

VARIABLES
    impl,      \* "prev" or "main": the revision that is run
    tmpls,     \* main.py: the stems TMPL_DIR.rglob('*.html') yields, in order
    db,        \* the store: [rows: table -> sequence of rows, junction: table -> sequence of rows]
    dist,      \* the output directory: path -> content of the file
    scratch,   \* the scratch buffer files: <<table, slug>> -> content
    pc,        \* the position of the running process ("none": no process runs)
    status,    \* "running", or the exit status of the last process: "0", "1" ("none" before)
    stderr,    \* whether the last process wrote to the error stream
    log,       \* generate_all: the "[OK] Copied" and "[OK] Wrote" lines it has
               \* printed, in order (the output of a watch is not kept)
    assets,    \* whether the file or directory generate_all copies is there
    elapsed,   \* the date-age script: now.getTime() - targetDate.getTime()
    label,     \* the date-age script: what formatDate returned, NoLabel before
    tables,    \* generate_all: the result of get_db_tables, NoTables before
    todo,      \* generate_all: what the section loop has yet to visit
    feeds,     \* generate_all: the feed tables yet to visit (prev.py), the table
               \* whose feed is due (main.py)
    argv,      \* watch_buffer: <<table, slug>>
    row,       \* watch_buffer: the row fetched at startup
    fd,        \* watch_buffer: "open" or "closed" descriptor of the scratch file
    pending,   \* watch_buffer: a NOTE_WRITE event is pending on the kqueue
    size,      \* watch_buffer: the size measured by lseek(fd, 0, SEEK_END)
    html,      \* watch_buffer: what os.read returned
    runs,      \* number of processes started so far
    writes,    \* number of writes to scratch files so far
    edits      \* number of edits of the store so far

vars == <<impl, tmpls, assets, elapsed, label, db, dist, scratch, pc, status, stderr, log, tables, todo,
          feeds, argv, row, fd, pending, size, html, runs, writes, edits>>

---------------------------------------------------------------------------
(* Bounds of the model *)

MaxRows == 2      \* rows per table
MaxJunction == 2  \* rows of the junction table
MaxRuns == 2      \* invocations of the program
MaxWrites == 2    \* writes to the scratch file
MaxEdits == 1
MaxDays == 740      \* the ages an entry is shown at, in days     \* edits of the store between and during invocations

---------------------------------------------------------------------------
(* Values *)

NULL == "NULL"            \* SQL NULL, Python None
NoTables == {"<unset>"}   \* 'tables' before get_db_tables ran
NoRow == [id |-> 0]       \* 'row' before the fetch

Txt(s) == [t |-> "text", v |-> s]

\* The characters of the creation times of the model, as code points.
Chars(s) ==
    CASE s = "2024-01-01" -> <<50, 48, 50, 52, 45, 48, 49, 45, 48, 49>>
      [] s = "2024-01-01 10:00:00" ->
            <<50, 48, 50, 52, 45, 48, 49, 45, 48, 49, 32, 49, 48, 58, 48, 48, 58, 48, 48>>
      [] s = "2024-01-02" -> <<50, 48, 50, 52, 45, 48, 49, 45, 48, 50>>
      [] s = "2023-12-31 23:59:59" ->
            <<50, 48, 50, 51, 45, 49, 50, 45, 51, 49, 32, 50, 51, 58, 53, 57, 58, 53, 57>>
      [] OTHER -> <<>>

CreatedTimes == {"2024-01-01", "2024-01-01 10:00:00", "2024-01-02", "2023-12-31 23:59:59"}

Min(a, b) == IF a <= b THEN a ELSE b

RECURSIVE Concat(_)
Concat(ss) == IF ss = <<>> THEN <<>> ELSE Head(ss) \o Concat(Tail(ss))

Range(f) == {f[x] : x \in DOMAIN f}

\* dict.get(key, default) on a row
Get(r, col, default) == IF col \in DOMAIN r THEN r[col] ELSE default

---------------------------------------------------------------------------
(* Configuration *)

DIST_DIR == [p \in {} |-> <<>>]    \* the output directory, just created

\* prev.py: TABLE_TO_BUILDER, in the order of the dict literal
TABLE_TO_BUILDER == <<"authors", "weblog", "bookmarks">>

RSS_TABLES == {"weblog", "bookmarks"}

\* RELATIONSHIPS[table]: the declarations
\* <<junction, this_id, this_junction_id, other_table, other_id, other_junction_id>>
RELATIONSHIPS(table) ==
    IF impl = "prev"
    THEN CASE table = "bookmarks" ->
                <<<<"bookmark_authors", "id", "bookmark_id", "authors", "id", "author_id">>>>
           [] table = "authors" ->
                <<<<"bookmark_authors", "id", "author_id", "bookmarks", "id", "bookmark_id">>>>
           [] OTHER -> <<>>
    ELSE CASE table = "resources" ->
                <<<<"resource_authors", "id", "resource_id", "authors", "id", "author_id">>>>
           [] table = "authors" ->
                <<<<"resource_authors", "id", "author_id", "resources", "id", "resource_id">>>>
           [] OTHER -> <<>>

\* The tables of the store of each revision: the table with related authors,
\* the authors, the plain table, and the junction table with its two columns.
RelatedTable(i) == IF i = "prev" THEN "bookmarks" ELSE "resources"
PlainTable(i) == IF i = "prev" THEN "weblog" ELSE "notes"
JunctionTable(i) == IF i = "prev" THEN "bookmark_authors" ELSE "resource_authors"
RelatedCol(i) == IF i = "prev" THEN "bookmark_id" ELSE "resource_id"
EntityTables(i) == {RelatedTable(i), "authors", PlainTable(i)}

---------------------------------------------------------------------------
(* Paths under the output directory *)

\* the index page of the table in the place of the page of the entry
EntryPathOfTable(table, slug) == <<table, "html">>

EntryPath(table, slug) == <<table, slug, "html">>   \* DIST_DIR / table / f"{slug}.html"
TopPath(stem) == <<stem, "html">>                   \* DIST_DIR / f"{stem}.html"
RssPath(table) == <<table, "rss">>                  \* DIST_DIR / table / "rss"
FaviconPath == <<"favicon", "ico">>
AssetsPath == <<"assets">>

WriteTo(dir, path, content) == (path :> content) @@ dir

---------------------------------------------------------------------------
(* The store *)

\* get_db_tables: every user table of the store
get_db_tables(d) == DOMAIN d.rows \cup DOMAIN d.junction

\* SELECT * FROM table: the rows in the order the store returns them
SelectAll(d, table) == d.rows[table]

\* SELECT a.slug as a_slug, b.slug as b_slug
\* FROM {b} b JOIN {j} j ON b.id = j.{j_b_id} JOIN {a} a ON a.id = j.{j_a_id}
\* as nested loops in the order of the FROM clause.
JoinQuery(d, a, decl) ==
    LET j == decl[1]
        j_a_id == decl[3]
        b == decl[4]
        j_b_id == decl[6]
        ForJ(brow, jrow) ==
            LET as == SelectSeq(d.rows[a], LAMBDA ar : ar.id = jrow[j_a_id])
            IN  [i \in 1..Len(as) |-> [a_slug |-> as[i].slug, b_slug |-> brow.slug]]
        ForB(brow) ==
            LET js == SelectSeq(d.junction[j], LAMBDA jr : brow.id = jr[j_b_id])
            IN  Concat([i \in 1..Len(js) |-> ForJ(brow, js[i])])
    IN  Concat([i \in 1..Len(d.rows[b]) |-> ForB(d.rows[b][i])])

\* memcmp order of two texts (SQLite's BINARY collation)
LexLess(x, y) ==
    \E k \in 1..(Len(y)) :
        /\ \A i \in 1..(k - 1) : i <= Len(x) /\ x[i] = y[i]
        /\ \/ k = Len(x) + 1
           \/ k <= Len(x) /\ x[k] < y[k]

\* a < b for two created_time values; NULL sorts below every text
SqlLess(a, b) ==
    IF a = NULL THEN b # NULL
    ELSE IF b = NULL THEN FALSE
    ELSE LexLess(Chars(a), Chars(b))

Perms(n) == {p \in [1..n -> 1..n] : \A i, k \in 1..n : i # k => p[i] # p[k]}

\* the query without its ORDER BY clause
OrderAsStored(rows) == {rows}

\* SELECT ... FROM table ORDER BY created_time DESC: every order of the rows
\* the query may return (rows with equal keys come in any order)
OrderByCreatedDesc(rows) ==
    {[i \in 1..Len(rows) |-> rows[p[i]]] : p \in
        {q \in Perms(Len(rows)) :
            \A i, k \in 1..Len(rows) :
                i < k => ~SqlLess(rows[q[i]].created_time, rows[q[k]].created_time)}}

---------------------------------------------------------------------------
(* Ordered dicts: a sequence of [key, val], keys in order of first insertion *)

HasKey(d, k) == \E i \in DOMAIN d : d[i].key = k

\* d[k] = v
DictPut(d, k, v) ==
    IF HasKey(d, k)
    THEN [i \in DOMAIN d |-> IF d[i].key = k THEN [key |-> k, val |-> v] ELSE d[i]]
    ELSE Append(d, [key |-> k, val |-> v])

DictGet(d, k) == d[CHOOSE i \in DOMAIN d : d[i].key = k].val

---------------------------------------------------------------------------
(* Dates *)

\* s.split(' ')[0]
SplitSpaceFirst(cs) ==
    IF \E i \in DOMAIN cs : cs[i] = 32
    THEN SubSeq(cs, 1, (CHOOSE i \in DOMAIN cs : cs[i] = 32 /\ \A k \in 1..(i - 1) : cs[k] # 32) - 1)
    ELSE cs

RECURSIVE ParseInt(_)
ParseInt(cs) ==
    IF cs = <<>> THEN 0
    ELSE ParseInt(SubSeq(cs, 1, Len(cs) - 1)) * 10 + (cs[Len(cs)] - 48)

\* datetime.strptime(dt, "%Y-%m-%d"), for a text of digits and two dashes
Strptime(cs) ==
    LET dashes == {i \in DOMAIN cs : cs[i] = 45}
        d1 == CHOOSE i \in dashes : \A k \in dashes : i <= k
        d2 == CHOOSE i \in dashes : \A k \in dashes : k <= i
    IN  [y |-> ParseInt(SubSeq(cs, 1, d1 - 1)),
         m |-> ParseInt(SubSeq(cs, d1 + 1, d2 - 1)),
         d |-> ParseInt(SubSeq(cs, d2 + 1, Len(cs)))]

\* the pubDate of a row: its creation date at midnight UTC
PubDate(created_time) == Strptime(SplitSpaceFirst(Chars(created_time)))

---------------------------------------------------------------------------
(* The date-age script *)

\* 1000 * 60 * 60 * 24 milliseconds; the model counts time in seconds
DayLength == 86400

NoLabel == [unit |-> "none", n |-> 0]

Abs(x) == IF x < 0 THEN 0 - x ELSE x

\* the script with its first two buckets drawn at 1 and 7 days inclusive
formatDateInclusive(diff) ==
    LET daysAgo == Abs(diff) \div DayLength
    IN  IF daysAgo <= 1 THEN [unit |-> "Today", n |-> 0]
        ELSE IF daysAgo <= 7 THEN [unit |-> "d", n |-> daysAgo]
        ELSE IF daysAgo < 30 THEN [unit |-> "w", n |-> daysAgo \div 7]
        ELSE IF daysAgo < 365 THEN [unit |-> "mo", n |-> daysAgo \div 30]
        ELSE [unit |-> "y", n |-> daysAgo \div 365]

\* formatDate: the "Ago" bucket of a time difference, as 'Today' or the
\* number and the unit of '<n><unit> ago'
formatDate(diff) ==
    LET daysAgo == Abs(diff) \div DayLength
    IN  IF daysAgo < 1 THEN [unit |-> "Today", n |-> 0]
        ELSE IF daysAgo < 7 THEN [unit |-> "d", n |-> daysAgo]
        ELSE IF daysAgo < 30 THEN [unit |-> "w", n |-> daysAgo \div 7]
        ELSE IF daysAgo < 365 THEN [unit |-> "mo", n |-> daysAgo \div 30]
        ELSE [unit |-> "y", n |-> daysAgo \div 365]

\* container.innerText = `written on ${formatDate(createdStr, birthStr)}`
RenderDateage ==
    /\ label = NoLabel
    /\ label' = formatDate(elapsed)
    /\ UNCHANGED <<impl, tmpls, assets, elapsed, db, dist, scratch, pc, status,
                   stderr, log, tables, todo, feeds, argv, row, fd, pending, size,
                   html, runs, writes, edits>>

---------------------------------------------------------------------------
(* gen_tmpl_values *)

\* whether row.get(col, None) is None (no html of the model's stores is NULL)
IsNone(r, col) == col \notin DOMAIN r \/ (col # "html" /\ r[col] = NULL)

\* prev.py: dateage_js(created_time), the script appended to an entry's html
dateage_js(created_time) == <<[t |-> "dateage_js", v |-> created_time]>>

\* main.py: the fields of a text that str.format cannot resolve when its only
\* argument is dateage: another field name, or a brace without its pair
UnresolvedFields == {"{x}", "{", "}"}

\* main.py: whether html.format(dateage=...) raises
FormatRaises(text) ==
    \E i \in DOMAIN text : text[i].t = "text" /\ text[i].v \in UnresolvedFields

\* main.py: html.format(dateage=dateage_cmp.format(created_time=..., ...))
FormatHtml(text, created_time) ==
    [i \in DOMAIN text |->
        IF text[i].t # "text" THEN text[i]
        ELSE IF text[i].v = "{dateage}" THEN [t |-> "dateage_cmp", v |-> created_time]
        ELSE IF text[i].v = "{{" THEN Txt("{")
        ELSE IF text[i].v = "}}" THEN Txt("}")
        ELSE text[i]]

\* a dict that keeps the first row of each slug
RECURSIVE ValuesBySlugFirst(_, _)
ValuesBySlugFirst(rows, n) ==
    IF n = 0 THEN <<>>
    ELSE LET d == ValuesBySlugFirst(rows, n - 1)
         IN  IF HasKey(d, rows[n].slug) THEN d
             ELSE DictPut(d, rows[n].slug, ("context" :> <<>>) @@ rows[n])

\* tmpl_values_by_slug = {r['slug']: {**dict(r), 'context': ''} for r in rows}
RECURSIVE ValuesBySlug(_, _)
ValuesBySlug(rows, n) ==
    IF n = 0 THEN <<>>
    ELSE DictPut(ValuesBySlug(rows, n - 1), rows[n].slug, ("context" :> <<>>) @@ rows[n])

\* the loop that puts the date-age fragment into each entry's html
WithDateage(i, values) ==
    [k \in DOMAIN values |->
        LET e == values[k].val IN
        IF IsNone(e, "html") \/ IsNone(e, "created_time") THEN values[k]
        ELSE [key |-> values[k].key,
              val |-> [e EXCEPT !.html =
                          IF i = "prev" THEN @ \o dateage_js(e.created_time)
                          ELSE FormatHtml(@, e.created_time)]]]

\* main.py: whether that loop raises
DateageRaises(i, values) ==
    /\ i = "main"
    /\ \E k \in DOMAIN values :
          LET e == values[k].val IN
          /\ ~(IsNone(e, "html") \/ IsNone(e, "created_time"))
          /\ FormatRaises(e.html)

\* relations_map that keeps a target slug once per source slug
RECURSIVE RelationsMapDedup(_, _)
RelationsMapDedup(joined, n) ==
    IF n = 0 THEN <<>>
    ELSE LET m == RelationsMapDedup(joined, n - 1)
             rel == joined[n]
             m1 == IF HasKey(m, rel.a_slug) THEN m ELSE DictPut(m, rel.a_slug, <<>>)
         IN  IF rel.b_slug \in Range(DictGet(m1, rel.a_slug)) THEN m1
             ELSE DictPut(m1, rel.a_slug, Append(DictGet(m1, rel.a_slug), rel.b_slug))

\* relations_map: source slug -> the target slugs, in the order of the result
RECURSIVE RelationsMap(_, _)
RelationsMap(joined, n) ==
    IF n = 0 THEN <<>>
    ELSE LET m == RelationsMap(joined, n - 1)
             rel == joined[n]
             m1 == IF HasKey(m, rel.a_slug) THEN m ELSE DictPut(m, rel.a_slug, <<>>)
         IN  DictPut(m1, rel.a_slug, Append(DictGet(m1, rel.a_slug), rel.b_slug))

\* "".join([h('p', {}, h('a', {'href': f'../{b}/{s}.html'}, f'/{b}/{s}')) for s in rel_slugs])
Links(b, rel_slugs) == [k \in DOMAIN rel_slugs |-> [table |-> b, slug |-> rel_slugs[k]]]

\* for row_slug, rel_slugs in relations_map.items(): the first n items
RECURSIVE AddLinks(_, _, _, _)
AddLinks(values, rmap, b, n) ==
    IF n = 0 THEN values
    ELSE LET vs == AddLinks(values, rmap, b, n - 1)
             row_slug == rmap[n].key
         IN  IF HasKey(vs, row_slug)
             THEN LET e == DictGet(vs, row_slug)
                  IN  DictPut(vs, row_slug,
                              [e EXCEPT !.context = @ \o Links(b, rmap[n].val)])
             ELSE vs

\* for j, a_id, j_a_id, b, b_id, j_b_id in RELATIONSHIPS[table]: the first n
RECURSIVE AddContext(_, _, _, _, _)
AddContext(d, table, decls, values, n) ==
    IF n = 0 THEN values
    ELSE LET vs == AddContext(d, table, decls, values, n - 1)
             joined == JoinQuery(d, table, decls[n])
             rmap == RelationsMap(joined, Len(joined))
         IN  AddLinks(vs, rmap, decls[n][4], Len(rmap))

gen_tmpl_values(i, d, table) ==
    LET rows == SelectAll(d, table)
        values == WithDateage(i, ValuesBySlug(rows, Len(rows)))
        decls == RELATIONSHIPS(table)
    IN  AddContext(d, table, decls, values, Len(decls))

gen_tmpl_values_raises(i, d, table) ==
    LET rows == SelectAll(d, table)
    IN  DateageRaises(i, ValuesBySlug(rows, Len(rows)))

---------------------------------------------------------------------------
(* Pages *)

\* prev.py: author_page(css, entry): the name and the context, no html
author_page(entry) ==
    [kind |-> "entry", title |-> entry.name, context |-> entry.context, html |-> <<>>]

\* prev.py: entry_page(css, entry)
entry_page(entry) ==
    [kind |-> "entry", title |-> entry.title, context |-> entry.context,
     html |-> entry.html]

\* prev.py: TABLE_TO_BUILDER[table](css, entry)
Builder(table, entry) ==
    IF table = "authors" THEN author_page(entry) ELSE entry_page(entry)

\* main.py: tmpl.format(css=css, **row): the template of the table filled with
\* the row's title (or name), context and html
TemplateFormat(entry) ==
    [kind |-> "entry", title |-> Get(entry, "title", Get(entry, "name", NULL)),
     context |-> entry.context, html |-> entry.html]

RenderEntry(i, table, entry) ==
    IF i = "prev" THEN Builder(table, entry) ELSE TemplateFormat(entry)

\* prev.py: if row.get('listed', 1); main.py appends every row
Listed(i, entry) ==
    IF i = "prev"
    THEN LET v == Get(entry, "listed", "1") IN v # NULL /\ v # "0"
    ELSE TRUE

\* the label of an index link: title, else name, else slug (prev.py);
\* /table/slug (main.py)
Label(i, slug, entry) ==
    IF i = "prev" THEN Get(entry, "title", Get(entry, "name", slug)) ELSE slug

\* index_content_html after the first n entries
RECURSIVE IndexContent(_, _, _)
IndexContent(i, values, n) ==
    IF n = 0 THEN <<>>
    ELSE LET rest == IndexContent(i, values, n - 1)
         IN  IF Listed(i, values[n].val)
             THEN Append(rest, [slug |-> values[n].key,
                                label |-> Label(i, values[n].key, values[n].val)])
             ELSE rest

\* table_index_page(css, table, html) / list_cmpn.format(...)
table_index_page(table, content) == [kind |-> "index", table |-> table, links |-> content]

\* a section whose index page is written before its entry pages
generate_section_index_first(i, d, table) ==
    LET values == gen_tmpl_values(i, d, table)
    IN  <<[path |-> TopPath(table),
           content |-> table_index_page(table, IndexContent(i, values, Len(values)))]>>
        \o [k \in DOMAIN values |->
               [path |-> EntryPath(table, values[k].key),
                content |-> RenderEntry(i, table, values[k].val)]]

\* generate_section: the files it writes, in order
generate_section(i, d, table) ==
    LET values == gen_tmpl_values(i, d, table)
    IN  [k \in DOMAIN values |->
            [path |-> EntryPath(table, values[k].key),
             content |-> RenderEntry(i, table, values[k].val)]]
        \o <<[path |-> TopPath(table),
              content |-> table_index_page(table, IndexContent(i, values, Len(values)))]>>

\* write_file, for each of a sequence of files
RECURSIVE WriteAll(_, _)
WriteAll(dir, files) ==
    IF files = <<>> THEN dir
    ELSE WriteAll(WriteTo(dir, Head(files).path, Head(files).content), Tail(files))

\* the lines "[OK] Wrote ... to {path}" of a sequence of files
Wrote(files) == [k \in DOMAIN files |-> [op |-> "wrote", path |-> files[k].path]]

---------------------------------------------------------------------------
(* generate_rss *)

\* xml_escape, on the titles of the model
xml_escape(s) == IF s = "A&B<C>" THEN "A&amp;B&lt;C&gt;" ELSE s

\* title_col
TitleCol(i, table) == IF i = "main" /\ table = "authors" THEN "name" ELSE "title"

\* one <item>
Item(i, table, r) ==
    [title |-> xml_escape(r[TitleCol(i, table)]),
     link |-> <<table, r.slug>>,
     pubDate |-> PubDate(r.created_time),
     description |-> r.html]

RssDocument(table, items_xml) == [kind |-> "rss", table |-> table, items |-> items_xml]

Unbound == [kind |-> "unbound"]   \* a local that was never assigned

\* the locals items_xml and rss_content after n iterations of the loop over rows
\* (prev.py assigns rss_content in the loop body, main.py after the loop)
RECURSIVE RssLoop(_, _, _, _)
RssLoop(i, table, rows, n) ==
    IF n = 0 THEN [items_xml |-> <<>>, rss_content |-> Unbound]
    ELSE LET before == RssLoop(i, table, rows, n - 1)
             items_xml == Append(before.items_xml, Item(i, table, rows[n]))
         IN  [items_xml |-> items_xml,
              rss_content |-> IF i = "prev" THEN RssDocument(table, items_xml)
                              ELSE before.rss_content]

\* rss_content when write_file is called
RssContent(i, table, rows) ==
    LET after == RssLoop(i, table, rows, Len(rows))
    IN  IF i = "prev" THEN after.rss_content ELSE RssDocument(table, after.items_xml)

\* the columns the query of generate_rss names
RssColumns(i, table) == {"slug", TitleCol(i, table), "created_time", "html"}

\* db.execute(q) raises when the table lacks a column the query names
QueryRaises(i, table, rows) ==
    \E k \in DOMAIN rows : ~(RssColumns(i, table) \subseteq DOMAIN rows[k])

\* whether generate_rss raises before it writes: a NULL created_time has no
\* split, and prev.py reads rss_content unassigned when there is no row
generate_rss_raises(i, table, rows) ==
    \/ \E k \in DOMAIN rows : rows[k].created_time = NULL
    \/ RssContent(i, table, rows) = Unbound

\* generate_rss: the file it writes, given the rows in the order of the query
generate_rss(i, table, rows) ==
    <<[path |-> RssPath(table), content |-> RssContent(i, table, rows)]>>

---------------------------------------------------------------------------
(* Process start and end *)

Building == pc \in {"clean", "copy", "discover", "root", "loop", "rss", "feeds"}
Watching == pc \in {"open", "wait", "seek", "read", "render"}
InLoop == pc \in {"wait", "seek", "read", "render"}

\* the process ends with the given status; err: it wrote to the error stream.
\* Its memory and its output stream end with it.
Exit(code, err) ==
    /\ pc' = "none"
    /\ status' = code
    /\ stderr' = err
    /\ log' = <<>>
    /\ tables' = NoTables
    /\ todo' = <<>>
    /\ feeds' = {}
    /\ argv' = <<"", "">>
    /\ row' = NoRow
    /\ pending' = FALSE
    /\ size' = 0
    /\ html' = <<>>

---------------------------------------------------------------------------
(* generate_all *)

\* main(): no argument
StartBuild ==
    /\ pc = "none"
    /\ runs < MaxRuns
    /\ runs' = runs + 1
    /\ pc' = "clean"
    /\ status' = "running"
    /\ stderr' = FALSE
    /\ log' = <<>>
    /\ tables' = NoTables
    /\ todo' = <<>>
    /\ feeds' = {}
    /\ UNCHANGED <<impl, tmpls, assets, elapsed, label, db, dist, scratch, argv, row, fd, pending, size,
                   html, writes, edits>>

\* a build that keeps the directory it finds
CleanDistKeep(dir) == dir

\* if DIST_DIR.exists(): shutil.rmtree(DIST_DIR); DIST_DIR.mkdir()
CleanDist(dir) == DIST_DIR

CleanOutputDir ==
    /\ pc = "clean"
    /\ dist' = CleanDist(dist)
    /\ pc' = "copy"
    /\ UNCHANGED <<impl, tmpls, assets, elapsed, label, db, scratch, status, stderr, log, tables, todo,
                   feeds, argv, row, fd, pending, size, html, runs, writes, edits>>

\* prev.py copies favicon.ico, main.py copies the assets directory
CopiedPath(i) == IF i = "prev" THEN FaviconPath ELSE AssetsPath

\* a copy that goes on without its source
CopyNeverRaises(present) == FALSE

\* shutil.copy / shutil.copytree raise when the source is not there
CopyRaises(present) == ~present

CopyAssets ==
    /\ pc = "copy"
    /\ IF CopyRaises(assets)
       THEN /\ Exit("1", TRUE)
            /\ UNCHANGED dist
       ELSE /\ dist' = WriteTo(dist, CopiedPath(impl), [kind |-> "copy"])
            /\ log' = Append(log, [op |-> "copied", path |-> CopiedPath(impl)])
            /\ pc' = "discover"
            /\ UNCHANGED <<status, stderr, tables, todo, feeds, argv, row, pending,
                           size, html>>
    /\ UNCHANGED <<impl, tmpls, assets, elapsed, label, db, scratch, fd, runs, writes, edits>>

\* tables = get_db_tables(db)
DiscoverTables ==
    /\ pc = "discover"
    /\ tables' = get_db_tables(db)
    /\ pc' = IF impl = "prev" THEN "root" ELSE "loop"
    /\ todo' = IF impl = "prev" THEN <<>> ELSE tmpls
    /\ UNCHANGED <<impl, tmpls, assets, elapsed, label, db, dist, scratch, status, stderr, log, feeds,
                   argv, row, fd, pending, size, html, runs, writes, edits>>

\* prev.py: index.html and 404.html
RootPages ==
    <<[path |-> TopPath("index"), content |-> [kind |-> "home"]],
      [path |-> TopPath("404"), content |-> [kind |-> "404"]]>>

WriteRootPages ==
    /\ pc = "root"
    /\ dist' = WriteAll(dist, RootPages)
    /\ log' = log \o Wrote(RootPages)
    /\ pc' = "loop"
    /\ todo' = TABLE_TO_BUILDER
    /\ UNCHANGED <<impl, tmpls, assets, elapsed, label, db, scratch, status, stderr, tables, feeds, argv,
                   row, fd, pending, size, html, runs, writes, edits>>

\* where generate_all goes after the section of a table
AfterSection(i) == IF i = "prev" THEN "loop" ELSE "rss"

\* one iteration of the section loop, for a table of the store:
\* prev.py: assert table in tables; generate_section(db, css, table, builder)
\* main.py: if stem in tables: generate_section(db, css, cmps, stem)
GenerateSection ==
    /\ pc = "loop"
    /\ todo # <<>>
    /\ impl = "main" => Head(todo) \in tables
    /\ LET table == Head(todo) IN
       IF table \notin tables \/ gen_tmpl_values_raises(impl, db, table)
       THEN /\ Exit("1", TRUE)
            /\ UNCHANGED dist
       ELSE /\ dist' = WriteAll(dist, generate_section(impl, db, table))
            /\ log' = log \o Wrote(generate_section(impl, db, table))
            /\ todo' = Tail(todo)
            /\ feeds' = IF impl = "main" THEN {table} ELSE feeds
            /\ pc' = AfterSection(impl)
            /\ UNCHANGED <<status, stderr, tables, argv, row, pending, size, html>>
    /\ UNCHANGED <<impl, tmpls, assets, elapsed, label, db, scratch, fd, runs, writes, edits>>

\* main.py: else: generate_standalone_page(css, stem)
GenerateStandalonePage ==
    /\ pc = "loop"
    /\ impl = "main"
    /\ todo # <<>>
    /\ Head(todo) \notin tables
    /\ LET page == <<[path |-> TopPath(Head(todo)),
                      content |-> [kind |-> "standalone", name |-> Head(todo)]]>>
       IN  /\ dist' = WriteAll(dist, page)
           /\ log' = log \o Wrote(page)
    /\ todo' = Tail(todo)
    /\ UNCHANGED <<impl, tmpls, assets, elapsed, label, db, scratch, pc, status, stderr, tables, feeds,
                   argv, row, fd, pending, size, html, runs, writes, edits>>

\* the section loop is over: prev.py goes on to the feeds of RSS_TABLES,
\* main.py returns and the process ends with status 0
SectionLoopEnds ==
    /\ pc = "loop"
    /\ todo = <<>>
    /\ IF impl = "prev"
       THEN /\ pc' = "feeds"
            /\ feeds' = RSS_TABLES
            /\ UNCHANGED <<status, stderr, log, tables, todo, argv, row, pending,
                           size, html>>
       ELSE Exit("0", FALSE)
    /\ UNCHANGED <<impl, tmpls, assets, elapsed, label, db, dist, scratch, fd, runs, writes, edits>>

\* generate_rss(db, table): prev.py for each table of the set RSS_TABLES, in the
\* order the set iterates; main.py right after the table's section
GenerateRss ==
    /\ pc \in {"feeds", "rss"}
    /\ \E table \in feeds :
       \E rows \in IF QueryRaises(impl, table, db.rows[table]) THEN {<<>>}
                  ELSE OrderByCreatedDesc(db.rows[table]) :
          IF QueryRaises(impl, table, db.rows[table])
             \/ generate_rss_raises(impl, table, rows)
          THEN /\ Exit("1", TRUE)
               /\ UNCHANGED dist
          ELSE /\ dist' = WriteAll(dist, generate_rss(impl, table, rows))
               /\ log' = log \o Wrote(generate_rss(impl, table, rows))
               /\ feeds' = feeds \ {table}
               /\ pc' = IF impl = "prev" THEN "feeds" ELSE "loop"
               /\ UNCHANGED <<status, stderr, tables, todo, argv, row, pending,
                              size, html>>
    /\ UNCHANGED <<impl, tmpls, assets, elapsed, label, db, scratch, fd, runs, writes, edits>>

\* prev.py: the feed loop is over, generate_all returns, the process ends with 0
FeedLoopEnds ==
    /\ pc = "feeds"
    /\ feeds = {}
    /\ Exit("0", FALSE)
    /\ UNCHANGED <<impl, tmpls, assets, elapsed, label, db, dist, scratch, fd, runs, writes, edits>>

---------------------------------------------------------------------------
(* watch_buffer *)

Slugs == {"a", "b"}

\* the tables a watch is asked for: two of the store and one it does not hold
WatchTables(i) == {PlainTable(i), "authors", "nosuch"}

\* the query without its WHERE clause
FetchAny(d, table, slug) == d.rows[table]

\* cursor.execute(f"SELECT * FROM {table} WHERE slug='{slug}'"): the rows
FetchSlug(d, table, slug) == SelectSeq(d.rows[table], LAMBDA r : r.slug = slug)

\* main(): --watch <table> <slug>, up to the check of the fetched row: a table
\* the store does not hold raises in execute, a slug without a row ends in
\* die_with_honor; both print to the error stream and end with status 1
StartWatch ==
    /\ pc = "none"
    /\ runs < MaxRuns
    /\ runs' = runs + 1
    /\ \E table \in WatchTables(impl), slug \in Slugs :
          IF table \notin DOMAIN db.rows
          THEN Exit("1", TRUE)
          ELSE IF FetchSlug(db, table, slug) = <<>>
          THEN Exit("1", TRUE)
          ELSE /\ argv' = <<table, slug>>
               /\ row' = FetchSlug(db, table, slug)[1]
               /\ pc' = "open"
               /\ status' = "running"
               /\ stderr' = FALSE
               /\ log' = <<>>
               /\ UNCHANGED <<tables, todo, feeds, pending, size, html>>
    /\ UNCHANGED <<impl, tmpls, assets, elapsed, label, db, dist, scratch, fd, writes, edits>>

\* main.py: (TMPL_DIR / f'{table}.html').read_text() raises without the file;
\* prev.py: every table of the store with a slug column has a builder
TemplateMissing(i, table) == i = "main" /\ table \notin Range(tmpls)

\* os.open(buf_file, O_RDONLY | O_CREAT), the kevent registered with EV_CLEAR,
\* and the builder or template loaded
OpenScratch ==
    /\ pc = "open"
    /\ scratch' = IF argv \in DOMAIN scratch THEN scratch ELSE WriteTo(scratch, argv, <<>>)
    /\ IF TemplateMissing(impl, argv[1])
       THEN /\ Exit("1", TRUE)
            /\ fd' = "closed"
       ELSE /\ pc' = "wait"
            /\ fd' = "open"
            /\ pending' = FALSE
            /\ UNCHANGED <<status, stderr, log, tables, todo, feeds, argv, row, size,
                           html>>
    /\ UNCHANGED <<impl, tmpls, assets, elapsed, label, db, dist, runs, writes, edits>>

\* kq.control(None, 1) returns: Idle -> Rebuilding
WaitEvent ==
    /\ pc = "wait"
    /\ pending
    /\ pending' = FALSE
    /\ pc' = "seek"
    /\ UNCHANGED <<impl, tmpls, assets, elapsed, label, db, dist, scratch, status, stderr, log, tables,
                   todo, feeds, argv, row, fd, size, html, runs, writes, edits>>

\* size = os.lseek(fd, 0, os.SEEK_END)
SeekEnd ==
    /\ pc = "seek"
    /\ size' = Len(scratch[argv])
    /\ pc' = "read"
    /\ UNCHANGED <<impl, tmpls, assets, elapsed, label, db, dist, scratch, status, stderr, log, tables,
                   todo, feeds, argv, row, fd, pending, html, runs, writes, edits>>

\* os.lseek(fd, 0, os.SEEK_SET); os.read(fd, size)
ReadFile(content, n) == SubSeq(content, 1, Min(n, Len(content)))

ReadBuffer ==
    /\ pc = "read"
    /\ html' = ReadFile(scratch[argv], size)
    /\ pc' = "render"
    /\ UNCHANGED <<impl, tmpls, assets, elapsed, label, db, dist, scratch, status, stderr, log, tables,
                   todo, feeds, argv, row, fd, pending, size, runs, writes, edits>>

\* 'created_time' in row, for a sqlite3.Row: whether a value of the row is
\* the text 'created_time' (the texts of a row are all but its id and html)
RowContains(r, text) == \E col \in DOMAIN r \ {"id", "html"} : r[col] = text

\* the entry the page is rendered from
\* prev.py: {**row, 'html': html + dateage, 'context': ''}
\* main.py: {**row, 'html': html}, context=''
WatchEntry(i, r, text) ==
    ("context" :> <<>>) @@
    ("html" :> (IF i = "prev" /\ RowContains(r, "created_time")
                THEN text \o dateage_js(r.created_time)
                ELSE text)) @@ r

\* the rest of the rebuild: render the page and write it; back to Idle
WritePage ==
    /\ pc = "render"
    /\ LET page == <<[path |-> EntryPath(argv[1], argv[2]),
                      content |-> RenderEntry(impl, argv[1], WatchEntry(impl, row, html))]>>
       IN  dist' = WriteAll(dist, page)
    /\ pc' = "wait"
    /\ UNCHANGED <<impl, tmpls, assets, elapsed, label, db, scratch, status, stderr, log, tables, todo,
                   feeds, argv, row, fd, pending, size, html, runs, writes, edits>>

\* a handler that leaves the descriptor as it is
LeaveOnInterrupt(f) == f

\* os.close(fd)
CloseOnInterrupt(f) == "closed"

\* except KeyboardInterrupt: print("\nStopping..."); os.close(fd); main returns
Interrupt ==
    /\ InLoop
    /\ fd' = CloseOnInterrupt(fd)
    /\ Exit("0", FALSE)
    /\ UNCHANGED <<impl, tmpls, assets, elapsed, label, db, dist, scratch, runs, writes, edits>>

---------------------------------------------------------------------------
(* The environment *)

\* what an editor saves to the scratch file
BufContents ==
    {<<Txt("<p>hi</p>")>>, <<Txt("<h1>t</h1>"), Txt("<p>hi</p>")>>}

\* a kqueue that notes a write only while the loop waits
NotifiedWhenIdle(f, p) == (f = "open" /\ pc = "wait") \/ p

\* KQ_FILTER_VNODE with KQ_NOTE_WRITE and KQ_EV_CLEAR on the open descriptor:
\* whether an event is pending after a write, given whether one was before
Notified(f, p) == f = "open" \/ p

\* a write to the scratch file of the running watch; the kqueue notes it once
\* the descriptor is registered
WriteScratch ==
    /\ Watching
    /\ writes < MaxWrites
    /\ writes' = writes + 1
    /\ \E c \in BufContents : scratch' = WriteTo(scratch, argv, c)
    /\ pending' = Notified(fd, pending)
    /\ UNCHANGED <<impl, tmpls, assets, elapsed, label, db, dist, pc, status, stderr, log, tables, todo,
                   feeds, argv, row, fd, size, html, runs, edits>>

RemoveAt(s, k) == SubSeq(s, 1, k - 1) \o SubSeq(s, k + 1, Len(s))

\* the operator deletes a row of a table that has pages, between two invocations or while a
\* watch is Idle (a watch reads the store at startup only, so a deletion at
\* another point of the loop has the effect of one at the next Idle)
DeleteRow ==
    /\ pc \in {"none", "wait"}
    /\ edits < MaxEdits
    /\ edits' = edits + 1
    /\ \E table \in {PlainTable(impl), "authors"} :
       \E k \in DOMAIN db.rows[table] :
          db' = [db EXCEPT !.rows[table] = RemoveAt(@, k)]
    /\ UNCHANGED <<impl, tmpls, assets, elapsed, label, dist, scratch, pc, status, stderr, log, tables,
                   todo, feeds, argv, row, fd, pending, size, html, runs, writes>>

---------------------------------------------------------------------------
(* The stores and template directories the program is run on *)

Titles == <<"T1", "T2", "T3", "T4">>
Names == <<"N1", "N2", "N3", "N4">>
SlugAt == <<"a", "b", "c", "d">>
Body == <<Txt("<p>x</p>")>>
Bodies == {Body, <<Txt("<p>"), Txt("{dateage}")>>, <<Txt("{x}")>>, <<Txt("{{"), Txt("}}")>>}

SeqsUpTo(S, n) == UNION {[1..k -> S] : k \in 0..n}

\* a row of an entity table: authors have a name, the others a title
MkRow(table, id, slug, created_time, body) ==
    IF table = "authors"
    THEN [id |-> id, slug |-> slug, name |-> Names[id],
          created_time |-> created_time, html |-> body]
    ELSE [id |-> id, slug |-> slug, title |-> Titles[id],
          created_time |-> created_time, html |-> body]

\* n rows with the slugs a, b, ... and the same creation time and body
DefaultRows(table, n) ==
    [k \in 1..n |-> MkRow(table, k, SlugAt[k], "2024-01-01", Body)]

MkStore(i, related, authors, plain, junction) ==
    [rows |-> (RelatedTable(i) :> related) @@ ("authors" :> authors)
               @@ (PlainTable(i) :> plain),
     junction |-> (JunctionTable(i) :> junction)]

MkJunction(i, pairs) ==
    [k \in DOMAIN pairs |-> (RelatedCol(i) :> pairs[k][1]) @@ ("author_id" :> pairs[k][2])]

\* stores that differ in the number of rows of the plain table
StoresBySize(i) ==
    {MkStore(i, DefaultRows(RelatedTable(i), 1), DefaultRows("authors", 1),
             DefaultRows(PlainTable(i), n), MkJunction(i, <<<<1, 1>>>>)) :
        n \in 0..MaxRows}

\* stores that differ in the slugs of the related table (two rows may share
\* one) and in the junction table, which pairs the ids 1 and 2 of the related
\* table (a row may be missing) with the two authors
StoresByRelation(i) ==
    {MkStore(i,
             [k \in DOMAIN slugs |->
                 MkRow(RelatedTable(i), k, slugs[k], "2024-01-01", Body)],
             DefaultRows("authors", Cardinality(Slugs)),
             DefaultRows(PlainTable(i), 1),
             MkJunction(i, pairs)) :
        slugs \in SeqsUpTo(Slugs, MaxRows),
        pairs \in SeqsUpTo((1..Cardinality(Slugs)) \X (1..Cardinality(Slugs)), MaxJunction)}

\* stores that differ in the creation times of the plain table
StoresByCreated(i) ==
    {MkStore(i, DefaultRows(RelatedTable(i), 1), DefaultRows("authors", 1),
             [k \in DOMAIN cts |-> MkRow(PlainTable(i), k, SlugAt[k], cts[k], Body)],
             <<>>) :
        cts \in SeqsUpTo(CreatedTimes, MaxRows) \ {<<>>}}

\* stores whose plain table has a listed column, with NULL, 0 or 1 in each row
StoresByListed(i) ==
    {MkStore(i, DefaultRows(RelatedTable(i), 1), DefaultRows("authors", 1),
             [k \in DOMAIN ls |->
                 ("listed" :> ls[k]) @@ MkRow(PlainTable(i), k, SlugAt[k], "2024-01-01", Body)],
             <<>>) :
        ls \in SeqsUpTo({NULL, "0", "1"}, MaxRows) \ {<<>>}}

\* stores that differ in the html of the one row of the plain table
StoresByBody(i) ==
    {MkStore(i, DefaultRows(RelatedTable(i), 1), DefaultRows("authors", 1),
             <<MkRow(PlainTable(i), 1, "a", "2024-01-01", b)>>, <<>>) :
        b \in Bodies}

\* stores that lack something a build asks for: the plain table, or the
\* created_time column of the plain table
StoresByShape(i) ==
    {[rows |-> [t \in {RelatedTable(i), "authors"} |->
                   DefaultRows(t, 1)],
      junction |-> (JunctionTable(i) :> <<>>)],
     MkStore(i, DefaultRows(RelatedTable(i), 1), DefaultRows("authors", 1),
             <<[id |-> 1, slug |-> "a", title |-> Titles[1], html |-> Body]>>, <<>>)}

\* main.py: what TMPL_DIR.rglob('*.html') may yield: a template for each table
\* and a standalone one, or no template for the plain table
TemplateListings(i) ==
    IF i = "prev" THEN {<<>>}
    ELSE {<<"index", "authors", "notes", "resources">>, <<"resources", "authors", "index">>}

\* the date-age script runs in the reader's browser, not in the program
NoScript == elapsed = 0 /\ label = NoLabel

InitWith(stores(_)) ==
    /\ impl \in {"prev", "main"}
    /\ tmpls \in TemplateListings(impl)
    /\ db \in stores(impl)
    /\ dist = DIST_DIR
    /\ scratch = [t \in {} |-> <<>>]
    /\ pc = "none"
    /\ status = "none"
    /\ stderr = FALSE
    /\ log = <<>>
    /\ tables = NoTables
    /\ todo = <<>>
    /\ feeds = {}
    /\ argv = <<"", "">>
    /\ row = NoRow
    /\ fd = "closed"
    /\ pending = FALSE
    /\ size = 0
    /\ html = <<>>
    /\ runs = 0
    /\ writes = 0
    /\ edits = 0

Init == InitWith(StoresBySize) /\ assets = TRUE /\ NoScript

Next ==
    \/ StartBuild
    \/ CleanOutputDir
    \/ CopyAssets
    \/ DiscoverTables
    \/ WriteRootPages
    \/ GenerateSection
    \/ GenerateStandalonePage
    \/ SectionLoopEnds
    \/ GenerateRss
    \/ FeedLoopEnds
    \/ StartWatch
    \/ OpenScratch
    \/ WaitEvent
    \/ SeekEnd
    \/ ReadBuffer
    \/ WritePage
    \/ Interrupt
    \/ WriteScratch
    \/ DeleteRow

\* builds and watch sessions, one after the other, on a store that the operator
\* may edit and a scratch file that an editor writes
Spec == Init /\ [][Next]_vars

\* full builds alone, on stores of every shape
BuildStores(i) ==
    StoresBySize(i) \cup StoresByRelation(i) \cup StoresByCreated(i)
        \cup StoresByListed(i) \cup StoresByBody(i) \cup StoresByShape(i)

InitBuild == InitWith(BuildStores) /\ assets \in BOOLEAN /\ NoScript

NextBuild ==
    \/ StartBuild
    \/ CleanOutputDir
    \/ CopyAssets
    \/ DiscoverTables
    \/ WriteRootPages
    \/ GenerateSection
    \/ GenerateStandalonePage
    \/ SectionLoopEnds
    \/ GenerateRss
    \/ FeedLoopEnds

SpecBuild == InitBuild /\ [][NextBuild]_vars

\* watch sessions alone, one after the other, with an editor that writes the
\* scratch file
NextWatch ==
    \/ StartWatch
    \/ OpenScratch
    \/ WaitEvent
    \/ SeekEnd
    \/ ReadBuffer
    \/ WritePage
    \/ Interrupt
    \/ WriteScratch

\* the loop is sequential code: kq.control returns once an event is pending,
\* and each statement of a rebuild is followed by the next
SpecWatch ==
    /\ Init
    /\ [][NextWatch]_vars
    /\ WF_vars(WaitEvent)
    /\ WF_vars(SeekEnd)
    /\ WF_vars(ReadBuffer)
    /\ WF_vars(WritePage)

\* the page of an entry of prev.py in a browser, at every age of the entry up
\* to MaxDays days: at the start, in the middle and at the end of the day, with
\* the clock of the reader after or before the creation time
Elapsed ==
    {sign * (d * DayLength + off) :
        sign \in {1, -1}, d \in 0..MaxDays, off \in {0, DayLength \div 2, DayLength - 1}}

DateageStores(i) == IF i = "prev" THEN {MkStore(i, <<>>, <<>>, <<>>, <<>>)} ELSE {}

InitDateage ==
    /\ InitWith(DateageStores)
    /\ assets = TRUE
    /\ elapsed \in Elapsed
    /\ label = NoLabel

SpecDateage == InitDateage /\ [][RenderDateage]_vars

---------------------------------------------------------------------------
(* Properties *)

SlugsOf(rows) == {rows[k].slug : k \in DOMAIN rows}

\* the files the running build has written so far
LogPaths == {log[k].path : k \in DOMAIN log}

\* how many lines of the build's output name the path
TimesWritten(path) == Cardinality({k \in DOMAIN log : log[k].path = path})

\* the running build has generated the section of the table
SectionDone(table) == Building /\ TopPath(table) \in LogPaths

\* generate_all has done all its work and is about to return
BuildComplete ==
    \/ impl = "main" /\ pc = "loop" /\ todo = <<>>
    \/ impl = "prev" /\ pc = "feeds" /\ feeds = {}

\* the title an entry page shows for a row
ShownTitle(r) == Get(r, "title", Get(r, "name", NULL))

\* the links the join of a declaration holds for a source slug, in its order
JoinLinks(d, table, decl, slug) ==
    LET mine == SelectSeq(JoinQuery(d, table, decl), LAMBDA rel : rel.a_slug = slug)
    IN  [k \in DOMAIN mine |-> [table |-> decl[4], slug |-> mine[k].b_slug]]

ExpectedContext(d, table, slug) ==
    Concat([k \in DOMAIN RELATIONSHIPS(table) |->
               JoinLinks(d, table, RELATIONSHIPS(table)[k], slug)])

\* C3: once a build has generated the section of a table with declared
\* relationships, the context of the page of each of its rows is the
\* concatenation, over the declarations in order, of one link per pair of the
\* declaration's join whose source slug is the row's, in the order of the join;
\* nothing is added or removed, and a row without related rows has no link.
C3_ContextIsJoin ==
    \A table \in DOMAIN db.rows :
        (RELATIONSHIPS(table) # <<>> /\ SectionDone(table)) =>
            \A slug \in SlugsOf(db.rows[table]) :
                /\ EntryPath(table, slug) \in DOMAIN dist
                /\ dist[EntryPath(table, slug)].context = ExpectedContext(db, table, slug)

\* a build has rendered a row with two links (the same link twice, as the
\* junction table holds the pair twice) and a row with none
C3_Witness ==
    /\ SectionDone(RelatedTable(impl))
    /\ \E s1, s2 \in SlugsOf(db.rows[RelatedTable(impl)]) :
          /\ Len(dist[EntryPath(RelatedTable(impl), s1)].context) = 2
          /\ dist[EntryPath(RelatedTable(impl), s1)].context[1]
                = dist[EntryPath(RelatedTable(impl), s1)].context[2]
          /\ dist[EntryPath(RelatedTable(impl), s2)].context = <<>>

\* the last row of the table with the slug
LastWith(rows, slug) ==
    rows[CHOOSE k \in DOMAIN rows :
            rows[k].slug = slug /\ \A j \in DOMAIN rows : j > k => rows[j].slug # slug]

HasDuplicateSlug(rows) ==
    \E j, k \in DOMAIN rows : j # k /\ rows[j].slug = rows[k].slug

\* a cause of failure of a build that has nothing to do with slugs: a feed
\* table without rows (prev.py), a body that str.format rejects (main.py), no
\* asset to copy, a table the store lacks (prev.py), a table without the
\* created_time column
OtherFailureCause ==
    \/ ~assets
    \/ impl = "prev" /\ \E t \in Range(TABLE_TO_BUILDER) : t \notin DOMAIN db.rows
    \/ \E t \in DOMAIN db.rows : \E k \in DOMAIN db.rows[t] :
          "created_time" \notin DOMAIN db.rows[t][k]
    \/ impl = "prev" /\ \E t \in RSS_TABLES \cap DOMAIN db.rows : db.rows[t] = <<>>
    \/ impl = "main" /\ \E t \in DOMAIN db.rows : \E k \in DOMAIN db.rows[t] :
                            FormatRaises(db.rows[t][k].html)

\* C4: once a build has generated the section of a table, it has written one
\* entry page per distinct slug of the table, at <table>/<slug>.html, and no
\* other page under the table; the page of a slug that two rows share is the
\* one of the later row, and the shared slug makes no build fail.
C4_OnePagePerSlug ==
    /\ \A table \in DOMAIN db.rows :
          SectionDone(table) =>
            /\ \A slug \in SlugsOf(db.rows[table]) :
                  /\ TimesWritten(EntryPath(table, slug)) = 1
                  /\ dist[EntryPath(table, slug)].title
                        = ShownTitle(LastWith(db.rows[table], slug))
            /\ \A p \in LogPaths :
                  (Len(p) = 3 /\ p[1] = table) => p[2] \in SlugsOf(db.rows[table])
    /\ status = "1" => OtherFailureCause

\* a build has generated the section of a table in which two rows share a slug
C4_Witness ==
    /\ SectionDone(RelatedTable(impl))
    /\ HasDuplicateSlug(db.rows[RelatedTable(impl)])
    /\ BuildComplete

\* a row whose listed value is not explicitly false: absent, NULL or true
NotExplicitlyFalse(r) == Get(r, "listed", "1") # "0"

\* C5: the index page of a table links to exactly the rows whose listed value
\* is not explicitly false, in the order of the rows; a row whose listed column
\* is absent or NULL is listed.  (Stated for tables whose slugs are unique.)
C5_IndexListsNotFalse ==
    \A table \in DOMAIN db.rows :
        (SectionDone(table) /\ ~HasDuplicateSlug(db.rows[table])) =>
            LET links == dist[TopPath(table)].links
                listed == SelectSeq(db.rows[table], NotExplicitlyFalse)
            IN  [k \in DOMAIN links |-> links[k].slug]
                    = [k \in DOMAIN listed |-> listed[k].slug]

\* days are ordered as their numbers are
DayNumber(date) == date.y * 372 + date.m * 31 + date.d

\* C6: in every feed the build has written, the items come in non-increasing
\* order of the date their pubDate carries, newest first, whatever the rows and
\* whether their created_time is 'YYYY-MM-DD' or 'YYYY-MM-DD HH:MM:SS'.
C6_FeedNewestFirst ==
    \A p \in DOMAIN dist :
        dist[p].kind = "rss" =>
            \A j, k \in DOMAIN dist[p].items :
                j < k => DayNumber(dist[p].items[j].pubDate)
                            >= DayNumber(dist[p].items[k].pubDate)

\* a feed of two items of different dates, from rows of which one has a date
\* and the other a date and a time
C6_Witness ==
    /\ RssPath(PlainTable(impl)) \in DOMAIN dist
    /\ Len(dist[RssPath(PlainTable(impl))].items) = 2
    /\ dist[RssPath(PlainTable(impl))].items[1].pubDate
          # dist[RssPath(PlainTable(impl))].items[2].pubDate
    /\ \E j, k \in DOMAIN db.rows[PlainTable(impl)] :
          /\ Len(Chars(db.rows[PlainTable(impl)][j].created_time)) = 10
          /\ Len(Chars(db.rows[PlainTable(impl)][k].created_time)) = 19

\* the tables generate_all visits, in its order
ProcessedTables ==
    IF impl = "prev" THEN TABLE_TO_BUILDER
    ELSE SelectSeq(tmpls, LAMBDA t : t \in get_db_tables(db))

\* the tables that get a feed
FeedTables == IF impl = "prev" THEN RSS_TABLES ELSE Range(ProcessedTables)

\* the distinct slugs of the rows, in the order of their first row
RECURSIVE DistinctSlugs(_)
DistinctSlugs(rows) ==
    IF rows = <<>> THEN <<>>
    ELSE LET front == DistinctSlugs(SubSeq(rows, 1, Len(rows) - 1))
         IN  IF rows[Len(rows)].slug \in Range(front) THEN front
             ELSE Append(front, rows[Len(rows)].slug)

\* a section: the entry pages, then the index page
SectionFiles(table) ==
    LET slugs == DistinctSlugs(db.rows[table])
    IN  [k \in DOMAIN slugs |-> EntryPath(table, slugs[k])] \o <<TopPath(table)>>

\* the files of the visited tables the build has written, in order
TableFilesWritten ==
    LET wrote == SelectSeq(log, LAMBDA l : l.op = "wrote" /\ l.path[1] \in Range(ProcessedTables))
    IN  [k \in DOMAIN wrote |-> wrote[k].path]

IsFeed(path) == path[Len(path)] = "rss"

DiscoveryFirst == (\E k \in DOMAIN log : log[k].op = "wrote") => tables # NoTables

\* each table once, in order: its section, then at once its feed
SectionThenFeedPerTable ==
    TableFilesWritten
        = Concat([k \in DOMAIN ProcessedTables |->
                     SectionFiles(ProcessedTables[k]) \o <<RssPath(ProcessedTables[k])>>])

\* C7 as stated: tables are discovered before any page is written, and a
\* complete build has processed each table once, in table order, the section
\* (entry pages, then index page) followed at once by the feed.
C7_SectionThenFeed ==
    /\ DiscoveryFirst
    /\ BuildComplete => SectionThenFeedPerTable

\* C7, amended: tables are discovered before any page is written; a complete
\* build has generated the section of each table once, in table order, entry
\* pages before the index page, and each feed once, after the section of its
\* table: main.py right after it, prev.py after the sections of all tables and
\* for the tables of RSS_TABLES only.
C7_SectionsThenFeeds ==
    /\ DiscoveryFirst
    /\ BuildComplete =>
          /\ SelectSeq(TableFilesWritten, LAMBDA p : ~IsFeed(p))
                = Concat([k \in DOMAIN ProcessedTables |-> SectionFiles(ProcessedTables[k])])
          /\ \A table \in Range(ProcessedTables) :
                IF table \in FeedTables
                THEN /\ TimesWritten(RssPath(table)) = 1
                     /\ \A j, k \in DOMAIN log :
                           (log[j].path = TopPath(table) /\ log[k].path = RssPath(table))
                               => j < k
                ELSE RssPath(table) \notin LogPaths
          /\ impl = "main" => SectionThenFeedPerTable
          /\ impl = "prev" =>
                \A j, k \in DOMAIN log :
                    (IsFeed(log[j].path) /\ ~IsFeed(log[k].path)) => k < j

\* a complete build of prev.py, with its feeds
C7_Witness ==
    /\ BuildComplete
    /\ impl = "prev"
    /\ RSS_TABLES \subseteq {t \in DOMAIN db.rows : RssPath(t) \in LogPaths}

\* C2: when a full build completes, the output directory holds exactly the
\* files that build produced: nothing an earlier build or a watch session left
\* there survives.
C2_OnlyThisBuild == BuildComplete => DOMAIN dist = LogPaths

\* a build completes after a watch session on an entry whose row was deleted
\* since: the page of that entry is not in the output directory
C2_Witness ==
    /\ BuildComplete
    /\ edits >= 1
    /\ writes >= 1
    /\ \E t \in DOMAIN scratch :
          /\ scratch[t] # <<>>
          /\ t[1] \in DOMAIN db.rows
          /\ \A k \in DOMAIN db.rows[t[1]] : db.rows[t[1]][k].slug # t[2]
          /\ <<t[1], t[2], "html">> \notin DOMAIN dist

\* the file a watch on (table, slug) may write
TargetOf(args) == <<args[1], args[2], "html">>

\* C8: a step of a watch session on (table, slug) leaves every file of the
\* output directory other than <table>/<slug>.html as it was: none appears,
\* none disappears, none changes.
C8_WatchFrame ==
    [][Watching =>
          \A p \in (DOMAIN dist \cup DOMAIN dist') \ {TargetOf(argv)} :
              /\ p \in DOMAIN dist
              /\ p \in DOMAIN dist'
              /\ dist'[p] = dist[p]]_vars

\* a watch session has rewritten its page with the content of the buffer, in
\* a directory that holds the index page a full build wrote
C8_Witness ==
    /\ pc = "wait"
    /\ TargetOf(argv) \in DOMAIN dist
    /\ dist[TargetOf(argv)].html = scratch[argv]
    /\ scratch[argv] # <<>>
    /\ <<argv[1], "html">> \in DOMAIN dist

\* the store holds a row of the table with the slug
SlugFound(table, slug) ==
    /\ table \in DOMAIN db.rows
    /\ \E k \in DOMAIN db.rows[table] : db.rows[table][k].slug = slug

\* C9: a watch enters its loop only for a table and slug the store holds; one
\* started for a table or slug that is not found ends at once with status 1
\* and a report on the error stream, and has written no output file (nor
\* created the scratch file).
C9_NotFoundDies ==
    [][/\ (pc = "none" /\ pc' = "open") => SlugFound(argv'[1], argv'[2])
       /\ (pc = "none" /\ pc' = "none" /\ runs' # runs) =>
             /\ status' = "1"
             /\ stderr'
             /\ dist' = dist
             /\ scratch' = scratch
             /\ fd' = fd]_vars

\* the first invocation was a watch that found no row: nothing is written
C9_Witness ==
    /\ pc = "none"
    /\ runs = 1
    /\ status = "1"
    /\ stderr
    /\ DOMAIN dist = {}
    /\ DOMAIN scratch = {}

\* C10: an interrupt can be delivered wherever the watch loop is, Idle or
\* Rebuilding; it ends the watch with the scratch descriptor closed and status
\* 0, nothing on the error stream and no file written; the loop is left by an
\* interrupt only, so no rebuild follows.
C10_InterruptStops ==
    /\ [](InLoop => (fd = "open" /\ ENABLED Interrupt))
    /\ [][InLoop =>
             \/ InLoop' /\ fd' = "open"
             \/ /\ pc' = "none"
                /\ fd' = "closed"
                /\ status' = "0"
                /\ ~stderr'
                /\ dist' = dist]_vars

\* a watch that rebuilt its page was interrupted
C10_Witness ==
    /\ pc = "none"
    /\ runs = 1
    /\ status = "0"
    /\ fd = "closed"
    /\ writes >= 1
    /\ \E t \in DOMAIN scratch : TargetOf(t) \in DOMAIN dist

\* C1 as stated: a notification taken while Idle starts one rebuild, which
\* reads the whole current content of the scratch buffer and writes the page
\* of the entry with that body, the row fetched at startup and an empty
\* context, and is Idle again.
C1_RebuildWholeBuffer ==
    [][/\ (pc = "wait" /\ pc' # "wait" /\ pc' # "none") => (pending /\ pc' = "seek")
       /\ (pc = "read" /\ pc' = "render") => html' = scratch[argv]
       /\ (pc = "render" /\ pc' # "none") =>
             /\ pc' = "wait"
             /\ dist' = WriteTo(dist, TargetOf(argv),
                                RenderEntry(impl, argv[1],
                                    ("context" :> <<>>) @@ ("html" :> html) @@ row))]_vars

\* the table is there, without the created_time column the feed query names
LacksFeedColumn(table) ==
    /\ table \in DOMAIN db.rows
    /\ \E k \in DOMAIN db.rows[table] : "created_time" \notin DOMAIN db.rows[table][k]

\* the tables generate_all of prev.py asserts, from the first the store lacks
FromFirstMissing ==
    {TABLE_TO_BUILDER[k] : k \in {j \in DOMAIN TABLE_TO_BUILDER :
        \E m \in 1..j : TABLE_TO_BUILDER[m] \notin DOMAIN db.rows}}

FailureCauseOutsideText ==
    \/ ~assets
    \/ impl = "prev" /\ \E t \in Range(TABLE_TO_BUILDER) : t \notin DOMAIN db.rows
    \/ \E t \in DOMAIN db.rows : LacksFeedColumn(t)
    \/ impl = "prev" /\ \E t \in RSS_TABLES \cap DOMAIN db.rows : db.rows[t] = <<>>

\* C12 as stated: an entry page carries the row's title and body as they are
\* in the store, braces included (the body first, whatever the page adds after
\* it), and no build fails because of what a body holds.
C12_ValuesLiteral ==
    /\ \A table \in DOMAIN db.rows :
          (SectionDone(table) /\ ~(impl = "prev" /\ table = "authors")) =>
             \A slug \in SlugsOf(db.rows[table]) :
                LET r == LastWith(db.rows[table], slug)
                    page == dist[EntryPath(table, slug)]
                IN  /\ page.title = ShownTitle(r)
                    /\ Len(page.html) >= Len(r.html)
                    /\ SubSeq(page.html, 1, Len(r.html)) = r.html
    /\ status = "1" => FailureCauseOutsideText

\* whole days between the creation time and now
DaysElapsed == Abs(elapsed) \div DayLength

\* C13: the label the script shows for d whole elapsed days is Today for
\* d < 1, Nd with N = d for 1 <= d < 7, Nw with N = floor(d/7) for 7 <= d < 30,
\* Nmo with N = floor(d/30) for 30 <= d < 365 and Ny with N = floor(d/365)
\* from 365 on (floor(d/k) is the N with N*k <= d < (N+1)*k).
C13_DateageBuckets ==
    label # NoLabel =>
        LET d == DaysElapsed
            FloorIs(n, k) == n * k <= d /\ d < (n + 1) * k
        IN  /\ label.unit = "Today" <=> d < 1
            /\ label.unit = "d" <=> (1 <= d /\ d < 7)
            /\ label.unit = "w" <=> (7 <= d /\ d < 30)
            /\ label.unit = "mo" <=> (30 <= d /\ d < 365)
            /\ label.unit = "y" <=> 365 <= d
            /\ label.unit = "d" => label.n = d
            /\ label.unit = "w" => FloorIs(label.n, 7)
            /\ label.unit = "mo" => FloorIs(label.n, 30)
            /\ label.unit = "y" => FloorIs(label.n, 365)

\* the label of an entry of 364 days and some hours: 12mo
C13_Witness ==
    /\ DaysElapsed = 364
    /\ elapsed % DayLength # 0
    /\ label = [unit |-> "mo", n |-> 12]

\* a cause of failure of a build other than the rows a feed is made of
FailureCauseOutsideFeed ==
    \/ ~assets
    \/ impl = "prev" /\ \E t \in Range(TABLE_TO_BUILDER) : t \notin DOMAIN db.rows
    \/ \E t \in DOMAIN db.rows : LacksFeedColumn(t)
    \/ impl = "main" /\ \E t \in DOMAIN db.rows : \E k \in DOMAIN db.rows[t] :
                            FormatRaises(db.rows[t][k].html)

\* the channel built once, after all items have been collected
ChannelOf(table, rows) ==
    [kind |-> "rss", table |-> table,
     items |-> [k \in DOMAIN rows |-> Item(impl, table, rows[k])]]

\* C14 as stated: for every sequence of rows of a feed table, the empty one
\* included, the feed written at <table>/rss is the channel built once from
\* all the items (for no rows: a channel without items), and generating it
\* makes no build fail.
C14_FeedAsBuiltOnce ==
    /\ \A t \in DOMAIN db.rows :
          RssPath(t) \in DOMAIN dist =>
             \E rows \in OrderByCreatedDesc(db.rows[t]) :
                dist[RssPath(t)] = ChannelOf(t, rows)
    /\ (pc = "none" /\ status = "1") => FailureCauseOutsideFeed

\* the page of the watched entry has the content of the scratch buffer as body
PageHasBuffer ==
    /\ TargetOf(argv) \in DOMAIN dist
    /\ dist[TargetOf(argv)].html = scratch[argv]

BuilderShowsBody == ~(impl = "prev" /\ argv[1] = "authors")

BufferEverHeld == BufContents \cup {<<>>}

\* C16 as stated: the page a rebuild writes has as its body what the scratch
\* buffer held at one instant, also when a write lands between the measurement
\* of the size and the read.
C16_BodyOfOneInstant ==
    [][(pc = "render" /\ pc' = "wait" /\ BuilderShowsBody) =>
          dist'[TargetOf(argv)].html \in BufferEverHeld]_vars

====
